---------------------------- MODULE Spec2Model ----------------------------
(***************************************************************************)
(* Franchise Proposal Evaluator (src/app.py): the document extractor, the  *)
(* prompt assembler and the script run main() with its session state.      *)
(*                                                                         *)
(* Text is a sequence of characters, each a one-character string.  A long  *)
(* literal of the source that holds no "<" and no ">" is kept as one       *)
(* element.  Bytes are numbers 0..255.                                     *)
(***************************************************************************)
EXTENDS Integers, Sequences, FiniteSets, TLC

\* ------------------------------------------------------------------ bounds

\* The longest byte content of a text file the extractor is run on.
MaxBytes == 3

\* The most files the upload widget holds at once.
MaxFiles == 2

\* ------------------------------------------------------------- characters

Printable ==
  << " ", "!", "\"", "#", "$", "%", "&", "'", "(", ")", "*", "+", ",", "-", ".", "/",
     "0", "1", "2", "3", "4", "5", "6", "7", "8", "9", ":", ";", "<", "=", ">", "?",
     "@", "A", "B", "C", "D", "E", "F", "G", "H", "I", "J", "K", "L", "M", "N", "O",
     "P", "Q", "R", "S", "T", "U", "V", "W", "X", "Y", "Z", "[", "\\", "]", "^", "_",
     "U+96", "a", "b", "c", "d", "e", "f", "g", "h", "i", "j", "k", "l", "m", "n", "o",
     "p", "q", "r", "s", "t", "u", "v", "w", "x", "y", "z", "{", "|", "}", "~" >>

\* The character of a code point: printable ASCII by the table, a line feed,
\* and any other code point by its number.
Chr(cp) ==
  IF cp \in 32..126 THEN Printable[cp - 31]
  ELSE IF cp = 10 THEN "\n"
  ELSE "U+" \o ToString(cp)

\* str.lower() on one character.
Lower(c) ==
  IF \E i \in 34..59 : Printable[i] = c
  THEN Printable[(CHOOSE i \in 34..59 : Printable[i] = c) + 32]
  ELSE c

LowerStr(s) == [i \in 1..Len(s) |-> Lower(s[i])]

\* name.split('.')[-1]: what follows the last dot, or the whole name.
LastSegment(s) ==
  LET dots == {i \in 1..Len(s) : s[i] = "."}
      from == IF dots = {} THEN 1
              ELSE (CHOOSE i \in dots : \A j \in dots : j <= i) + 1
  IN  SubSeq(s, from, Len(s))

\* sep.join(parts)
RECURSIVE Join(_, _)
Join(parts, sep) ==
  IF Len(parts) = 0 THEN << >>
  ELSE IF Len(parts) = 1 THEN parts[1]
  ELSE parts[1] \o sep \o Join(Tail(parts), sep)

\* ------------------------------------------------------ bytes.decode(utf-8)

IsCont(b) == b \in 128..191

\* The length of the sequence a lead byte starts; 0 for a byte that starts none.
SeqLen(b) ==
  IF b < 128 THEN 1
  ELSE IF b \in 194..223 THEN 2
  ELSE IF b \in 224..239 THEN 3
  ELSE IF b \in 240..244 THEN 4
  ELSE 0

\* The second byte of a sequence, by its lead: no overlong form, no surrogate,
\* nothing above U+10FFFF.
SecondOK(b1, b2) ==
  IF b1 = 224 THEN b2 \in 160..191
  ELSE IF b1 = 237 THEN b2 \in 128..159
  ELSE IF b1 = 240 THEN b2 \in 144..191
  ELSE IF b1 = 244 THEN b2 \in 128..143
  ELSE IsCont(b2)

\* How many of the bytes after the lead at i are valid, up to the n - 1 wanted.
RECURSIVE ValidAfter(_, _, _, _)
ValidAfter(bs, i, n, k) ==
  IF k = n - 1 \/ i + k + 1 > Len(bs) THEN k
  ELSE IF (IF k = 0 THEN SecondOK(bs[i], bs[i + 1]) ELSE IsCont(bs[i + k + 1]))
       THEN ValidAfter(bs, i, n, k + 1)
       ELSE k

CodePoint(bs, i, n) ==
  IF n = 1 THEN bs[i]
  ELSE IF n = 2 THEN (bs[i] % 32) * 64 + (bs[i + 1] % 64)
  ELSE IF n = 3 THEN (bs[i] % 16) * 4096 + (bs[i + 1] % 64) * 64 + (bs[i + 2] % 64)
  ELSE (bs[i] % 8) * 262144 + (bs[i + 1] % 64) * 4096
       + (bs[i + 2] % 64) * 64 + (bs[i + 3] % 64)

\* The decoder's walk: a well-formed sequence gives its character; an
\* ill-formed one (the lead and the valid bytes after it) gives onError.
RECURSIVE DecodeFrom(_, _, _)
DecodeFrom(bs, i, onError) ==
  IF i > Len(bs) THEN << >>
  ELSE LET n == SeqLen(bs[i])
           k == IF n = 0 THEN 0 ELSE ValidAfter(bs, i, n, 0)
       IN  IF n > 0 /\ k = n - 1
           THEN << Chr(CodePoint(bs, i, n)) >> \o DecodeFrom(bs, i + n, onError)
           ELSE onError \o DecodeFrom(bs, i + k + 1, onError)

\* U+FFFD, the character errors='replace' puts for an ill-formed sequence.
ReplacementChar == Chr(65533)

\* errors='replace' where the code asks for errors='ignore'.
decode_utf8_replace(bs) == DecodeFrom(bs, 1, << ReplacementChar >>)

\* bytes.decode('utf-8', errors='ignore'): ill-formed bytes are dropped.
decode_utf8_ignore(bs) == DecodeFrom(bs, 1, << >>)

\* ------------------------------------------------------------ the extractor

\* An uploaded file: its name, its bytes, and what the PDF or Word library
\* makes of the bytes: it raises with message msg, or it yields parts (the
\* text of each page, of each paragraph).
UploadedFile(name, data, raises, msg, parts) ==
  [name |-> name, data |-> data, raises |-> raises, msg |-> msg, parts |-> parts]

Ext_txt  == << "t", "x", "t" >>
Ext_md   == << "m", "d" >>
Ext_pdf  == << "p", "d", "f" >>
Ext_docx == << "d", "o", "c", "x" >>
Ext_doc  == << "d", "o", "c" >>

file_extension(file) == LowerStr(LastSegment(file.name))

PdfErrorMarker(msg)  == << "[Error extracting text from PDF: " >> \o msg \o << "]" >>
DocxErrorMarker(msg) == << "[Error extracting text from DOCX: " >> \o msg \o << "]" >>
UnsupportedMarker(ext) == << "[Unsupported file type: " >> \o ext \o << "]" >>

\* What a call returns or raises: content is the value returned.
Returned(content) == [raised |-> FALSE, content |-> content]
Raised(msg)       == [raised |-> TRUE, content |-> msg]

\* The extractor without its try/except around the PDF and Word libraries.
extract_unguarded(file) ==
  LET ext == file_extension(file)
  IN  IF ext \in {Ext_txt, Ext_md} THEN Returned(decode_utf8_ignore(file.data))
      ELSE IF ext = Ext_pdf
        THEN IF file.raises THEN Raised(file.msg)
             ELSE Returned(Join(file.parts, << "\n", "\n" >>))
      ELSE IF ext \in {Ext_docx, Ext_doc}
        THEN IF file.raises THEN Raised(file.msg)
             ELSE Returned(Join(file.parts, << "\n" >>))
      ELSE Returned(UnsupportedMarker(ext))

extract_text_from_file(file) ==
  LET ext == file_extension(file)
  IN  IF ext \in {Ext_txt, Ext_md} THEN Returned(decode_utf8_ignore(file.data))
      ELSE IF ext = Ext_pdf
        THEN IF file.raises THEN Returned(PdfErrorMarker(file.msg))
             ELSE Returned(Join(file.parts, << "\n", "\n" >>))
      ELSE IF ext \in {Ext_docx, Ext_doc}
        THEN IF file.raises THEN Returned(DocxErrorMarker(file.msg))
             ELSE Returned(Join(file.parts, << "\n" >>))
      ELSE Returned(UnsupportedMarker(ext))

\* ------------------------------------------------------ the prompt assembler

\* The rubric resource 'spinelli_heuristics_model': readable with a text, or
\* open() or read() raising.
RubricResource(readable, text) == [readable |-> readable, text |-> text]

DimensionNames ==
  << "Market Opportunity Assessment",
     "Value Creation & Brand Positioning",
     "Operational Excellence & Knowledge Transfer",
     "Financial Structure & Alignment",
     "Leadership & Support Systems",
     "Adaptability & Growth Potential" >>

\* json.dumps of the fallback model: its name and the six dimension names.
FallbackRubric ==
  << "{\"name\": \"Spinelli Heuristics Model\", \"dimensions\": [\"" >>
  \o Join([i \in 1..Len(DimensionNames) |-> << DimensionNames[i] >>], << "\", \"" >>)
  \o << "\"]}" >>

\* A loader whose fallback is empty.
load_without_fallback(resource) ==
  IF resource.readable THEN Returned(resource.text) ELSE Returned(<< >>)

load_default_heuristics(resource) ==
  IF resource.readable THEN Returned(resource.text) ELSE Returned(FallbackRubric)

\* The rubric override: None, or a text.
NoOverride == [given |-> FALSE, text |-> << >>]
Override(text) == [given |-> TRUE, text |-> text]
Truthy(h) == h.given /\ Len(h.text) > 0

DocumentOpen  == << "<", "d", "o", "c", "u", "m", "e", "n", "t", ">", "\n", "<", "s", "o", "u", "r", "c", "e", ">" >>
SourceClose   == << "<", "/", "s", "o", "u", "r", "c", "e", ">", "\n", "<", "d", "o", "c", "u", "m", "e", "n", "t", "_", "c", "o", "n", "t", "e", "n", "t", ">" >>
ContentClose  == << "<", "/", "d", "o", "c", "u", "m", "e", "n", "t", "_", "c", "o", "n", "t", "e", "n", "t", ">", "\n", "<", "/", "d", "o", "c", "u", "m", "e", "n", "t", ">", "\n", "\n" >>
DocumentsOpen == << "\n", "<", "d", "o", "c", "u", "m", "e", "n", "t", "s", ">", "\n" >>
DocumentsClose == << "\n", "<", "/", "d", "o", "c", "u", "m", "e", "n", "t", "s", ">", "\n", "\n" >>
RubricHeading == << "Here is a heuristics model:", "\n" >>

\* The fixed instructions after the rubric (lines 161-226 of the template):
\* the six dimensions, the ratings wanted and the layout of the answer.  They
\* hold no "<" and no ">".
Instructions ==
  << "\n", "\n",
     "I want you to create a comprehensive franchise proposal evaluation [...] 5. [Recommendation 5]",
     "\n" >>

\* One entry of franchise_files, an ordered dict: a name and an extracted text.
Entry(name, content) == [name |-> name, content |-> content]

DocumentBlock(e) ==
  DocumentOpen \o e.name \o SourceClose \o e.content \o ContentClose

RECURSIVE document_content(_)
document_content(franchise_files) ==
  IF Len(franchise_files) = 0 THEN << >>
  ELSE DocumentBlock(Head(franchise_files)) \o document_content(Tail(franchise_files))

heuristics_model(heuristics_content, resource) ==
  IF Truthy(heuristics_content) THEN heuristics_content.text
  ELSE load_default_heuristics(resource).content

create_prompt(franchise_files, heuristics_content, resource) ==
  DocumentsOpen \o document_content(franchise_files) \o DocumentsClose
  \o RubricHeading \o heuristics_model(heuristics_content, resource)
  \o Instructions

\* ------------------------------------------------- the external service call

\* The installed anthropic module, as the code probes it: whether the import
\* succeeds, hasattr(anthropic, 'Client'), the HUMAN_PROMPT and AI_PROMPT
\* constants, whether a client has the older completion method, and whether
\* anthropic.Anthropic exists.  The code pins no version.
Library(importable, client, constants, completion, anthropic) ==
  [importable |-> importable, Client |-> client, constants |-> constants,
   completion |-> completion, Anthropic |-> anthropic]

\* What the service and the client library make of one request: the call
\* raises, or it returns a response of some shape.
\*   kind "raise":    error is "AttributeError", "TypeError" or "APIError"
\*                    (authentication, rate limit, network)
\*   kind "response": shape is "completion" (a mapping with the field),
\*                    "no_field" (a mapping without it, KeyError),
\*                    "not_subscriptable" (TypeError),
\*                    "message" (content holds one text block),
\*                    "empty_content" (IndexError), "no_content" (AttributeError)
Outcome(kind, error, shape, text) ==
  [kind |-> kind, error |-> error, shape |-> shape, text |-> text]

RaisesOutcome(error) == Outcome("raise", error, "none", "")
ResponseOutcome(shape, text) == Outcome("response", "none", shape, text)

\* The state of the try statement of lines 331-380 after a step: message_content
\* bound (done), an exception on its way to a handler (error), the requests
\* sent so far and the messages put on the page.
CallState(done, error, content, requests, shown) ==
  [done |-> done, error |-> error, content |-> content,
   requests |-> requests, shown |-> shown]

\* Lines 344-349: client.completion(...) and response['completion'].
older_message_content(outcome) ==
  IF outcome.kind = "raise" THEN [raised |-> TRUE, content |-> outcome.error]
  ELSE IF outcome.shape = "completion" THEN [raised |-> FALSE, content |-> outcome.text]
  ELSE IF outcome.shape = "no_field" THEN [raised |-> TRUE, content |-> "KeyError"]
  ELSE [raised |-> TRUE, content |-> "TypeError"]

\* message.content[0] stored, not its text.
content_block_of_message(outcome) ==
  IF outcome.kind = "raise" THEN [raised |-> TRUE, content |-> outcome.error]
  ELSE IF outcome.shape = "message"
    THEN [raised |-> FALSE, content |-> "TextBlock(text='" \o outcome.text \o "')"]
  ELSE IF outcome.shape = "empty_content" THEN [raised |-> TRUE, content |-> "IndexError"]
  ELSE IF outcome.shape = "no_content" THEN [raised |-> TRUE, content |-> "AttributeError"]
  ELSE [raised |-> TRUE, content |-> "TypeError"]

\* Lines 360-367: client.messages.create(...) and message.content[0].text.
newer_message_content(outcome) ==
  IF outcome.kind = "raise" THEN [raised |-> TRUE, content |-> outcome.error]
  ELSE IF outcome.shape = "message" THEN [raised |-> FALSE, content |-> outcome.text]
  ELSE IF outcome.shape = "empty_content" THEN [raised |-> TRUE, content |-> "IndexError"]
  ELSE IF outcome.shape = "no_content" THEN [raised |-> TRUE, content |-> "AttributeError"]
  ELSE [raised |-> TRUE, content |-> "TypeError"]

Request(api, prompt) == [api |-> api, prompt |-> prompt]

\* Lines 336-354, the inner try: the older client.
older_client(library, prompt, old) ==
  IF ~library.Client
    THEN CallState(FALSE, "AttributeError", "", << >>, << >>)
  ELSE IF ~library.constants
    THEN CallState(FALSE, "Exception", "", << >>,
                   << "error: Anthropic library version mismatch. Missing constants." >>)
  ELSE IF ~library.completion
    THEN CallState(FALSE, "AttributeError", "", << >>, << >>)
  ELSE LET got == older_message_content(old)
           sent == << Request("completion", prompt) >>
       IN  IF got.raised THEN CallState(FALSE, got.content, "", sent, << >>)
           ELSE CallState(TRUE, "none", got.content, sent, << >>)

\* Lines 355-367, the handler of the inner try: the newer client.
newer_client(library, prompt, new, before) ==
  IF ~library.Anthropic
    THEN CallState(FALSE, "AttributeError", "", before.requests, before.shown)
  ELSE LET got == newer_message_content(new)
           sent == Append(before.requests, Request("messages.create", prompt))
       IN  IF got.raised THEN CallState(FALSE, got.content, "", sent, before.shown)
           ELSE CallState(TRUE, "none", got.content, sent, before.shown)

\* Line 355: except (AttributeError, TypeError).
falls_back(error) == error \in {"AttributeError", "TypeError"}

\* Whether a run that reaches the call sends the older client's request, and
\* whether it sends the newer client's after the older client ended with old.
sends_older(library) ==
  library.importable /\ library.Client /\ library.constants /\ library.completion

sends_newer(library, old) ==
  /\ library.importable
  /\ library.Anthropic
  /\ LET first == older_client(library, << >>, old)
     IN  ~first.done /\ falls_back(first.error)

\* Lines 331-367: the state when the try body ends or raises to line 378.
call_claude(library, prompt, old, new) ==
  IF ~library.importable
    THEN CallState(FALSE, "ImportError", "", << >>, << >>)
  ELSE LET first == older_client(library, prompt, old)
       IN  IF ~first.done /\ falls_back(first.error)
           THEN newer_client(library, prompt, new, first)
           ELSE first

\* ------------------------------------------------------------ the script run

VARIABLES
  secrets,         \* st.secrets: the sections and keys present
  library,         \* the installed anthropic module
  rubric,          \* the rubric resource on disk
  uploaded_files,  \* the upload widget's files, in upload order
  session_state,   \* st.session_state: a mapping, 'raw_response' in it or not
  run,             \* what the latest run of main() did in the Upload & Analyze tab
  results_tab,     \* what the latest run of main() put on the Results tab
  served,          \* what the service made of each request of the latest run
  latest,          \* the service's last answer in the latest analysis that called it
  answered,        \* the latest well-formed answer the service gave in this session
  xfile, xout,     \* the extractor alone: its argument and what it returned
  pargs, pout      \* the assembler alone: its arguments and what it returned

vars == << secrets, library, rubric, uploaded_files, session_state, run,
           results_tab, served, latest, answered, xfile, xout, pargs, pout >>

session_vars == << secrets, library, rubric, uploaded_files, session_state, run,
                   results_tab, served, latest, answered >>
extractor_vars == << xfile, xout >>
assembler_vars == << pargs, pout >>

\* Lines 256-263: the key from the secrets, or the dummy key.
api_key_of(store) ==
  IF "api_keys" \in store /\ "claude" \in store THEN "sk-ant-key" ELSE "not_found"

\* Lines 293-310: franchise_files[file.name] = file_content on an ordered dict:
\* a new name goes last, a name already there keeps its place and takes the
\* new content.
DictSet(d, name, content) ==
  IF \E i \in 1..Len(d) : d[i].name = name
  THEN [i \in 1..Len(d) |-> IF d[i].name = name THEN Entry(name, content) ELSE d[i]]
  ELSE Append(d, Entry(name, content))

\* The loop of lines 300-310 over files[i..]: the calls made (calls), the dict
\* (dict), and whether a call raised out of the loop.
Extraction(calls, dict, raised) == [calls |-> calls, dict |-> dict, raised |-> raised]

RECURSIVE process_files(_, _)
process_files(files, acc) ==
  IF Len(files) = 0 THEN acc
  ELSE LET got == extract_text_from_file(Head(files))
       IN  IF got.raised THEN Extraction(acc.calls, acc.dict, TRUE)
           ELSE process_files(Tail(files),
                  Extraction(Append(acc.calls, Entry(Head(files).name, got.content)),
                             DictSet(acc.dict, Head(files).name, got.content),
                             FALSE))

\* A button handler that checks only for files.
rejects_without_files(api_key, files) ==
  IF Len(files) = 0 THEN "warning: Please upload at least one franchise document"
  ELSE "none"

\* Lines 287-290: the message the handler rejects a press with, or "none".
rejects(api_key, files) ==
  IF api_key = "not_found" THEN "error: API key not found. Please contact the administrator."
  ELSE IF Len(files) = 0 THEN "warning: Please upload at least one franchise document"
  ELSE "none"

NoSession == [k \in {} |-> ""]

RunRecord(pressed, disabled, rejected, calls, dict, prompt, called, requests, shown, stored, uncaught) ==
  [pressed |-> pressed, button_disabled |-> disabled, rejected |-> rejected,
   extracted |-> calls, franchise_files |-> dict, prompt |-> prompt,
   called |-> called, requests |-> requests, shown |-> shown,
   stored |-> stored, uncaught |-> uncaught]

\* A run of main() in which the button was not pressed, or its handler
\* rejected the press.
QuietRun(pressed, disabled, rejected, shown) ==
  RunRecord(pressed, disabled, rejected, << >>, << >>, << >>, FALSE, << >>, shown,
            FALSE, FALSE)

\* A store on every path, also on the one through line 378.
store_always(session, call) ==
  [k \in {"raw_response"} |-> call.content]

\* Line 369 on the path where message_content is bound; line 378 stores nothing.
store(session, call) ==
  IF call.done THEN [k \in {"raw_response"} |-> call.content] ELSE session

\* Lines 384-413: the Results tab of a run that got there.
render_results(session) ==
  IF "raw_response" \in DOMAIN session /\ session["raw_response"] # ""
  THEN [rendered |-> TRUE, displayed |-> TRUE, text |-> session["raw_response"]]
  ELSE [rendered |-> TRUE, displayed |-> FALSE, text |-> ""]

NotRendered == [rendered |-> FALSE, displayed |-> FALSE, text |-> ""]

\* Lines 235-413: one run of the script.  pressed is what st.button returned;
\* old and new are what the service makes of a request of either client.  The
\* model chosen in the select box goes into the request and decides nothing
\* here; it is left out.  The rubric resource does not change during a
\* session, so the cache of load_default_heuristics returns what a call would.
main(store_, lib, resource, files, session, pressed, old, new) ==
  LET api_key  == api_key_of(store_)
      disabled == Len(files) = 0 \/ api_key = "not_found"
      keyshown == IF api_key = "not_found"
                  THEN << "error: Claude API key not found in secrets. Please contact the administrator." >>
                  ELSE << "success: Claude API key loaded from secrets" >>
      refusal  == rejects(api_key, files)
  IN  IF ~pressed
        THEN [run |-> QuietRun(FALSE, disabled, FALSE, keyshown),
              session |-> session, tab |-> render_results(session)]
      ELSE IF refusal # "none"
        THEN [run |-> QuietRun(TRUE, disabled, TRUE, Append(keyshown, refusal)),
              session |-> session, tab |-> render_results(session)]
      ELSE LET ex == process_files(files, Extraction(<< >>, << >>, FALSE))
           IN  IF ex.raised
                 THEN [run |-> RunRecord(TRUE, disabled, FALSE, ex.calls, ex.dict, << >>,
                                         FALSE, << >>, keyshown, FALSE, TRUE),
                       session |-> session, tab |-> NotRendered]
               ELSE LET heuristics_content == load_default_heuristics(resource)
                        prompt == create_prompt(ex.dict,
                                    Override(heuristics_content.content), resource)
                        call == call_claude(lib, prompt, old, new)
                        after == store(session, call)
                        note == IF call.done
                                THEN "info: Analysis complete! Click on the 'Results' tab to view the evaluation."
                                ELSE "error: Error calling Claude API: " \o call.error
                    IN  [run |-> RunRecord(TRUE, disabled, FALSE, ex.calls, ex.dict, prompt,
                                   TRUE, call.requests,
                                   keyshown \o call.shown \o << note >>,
                                   call.done, FALSE),
                         session |-> after, tab |-> render_results(after)]

\* ---------------------------------------------------------------- the inputs

Name_a_md   == << "a", ".", "m", "d" >>
Name_b_md   == << "b", ".", "m", "d" >>
Name_B_TXT  == << "B", ".", "T", "X", "T" >>
Name_n_Md   == << "n", ".", "M", "d" >>
Name_i_txt  == << "i", ".", "t", "x", "t" >>
Name_p_pdf  == << "p", ".", "p", "d", "f" >>
Name_q_PDF  == << "q", ".", "P", "D", "F" >>
Name_d_docx == << "d", ".", "d", "o", "c", "x" >>
Name_x_xyz  == << "x", ".", "x", "y", "z" >>

TextFile(name, data) == UploadedFile(name, data, FALSE, << >>, << >>)

\* "Hi"
File_hello == TextFile(Name_a_md, << 72, 105 >>)
\* A second file named a.md: "O" and a byte that starts no sequence.
File_same_name == TextFile(Name_a_md, << 79, 255 >>)
\* A text file that quotes a tag: "<source>a.md</source>"
File_markup == TextFile(Name_i_txt, << 60, 115, 111, 117, 114, 99, 101, 62, 97, 46, 109, 100, 60, 47, 115, 111, 117, 114, 99, 101, 62 >>)
File_pdf_broken ==
  UploadedFile(Name_p_pdf, << 37 >>, TRUE, << "EOF marker not found" >>, << >>)
File_pdf_pages ==
  UploadedFile(Name_q_PDF, << 37 >>, FALSE, << >>, << << "P", "1" >>, << "P", "2" >> >>)
File_docx_broken ==
  UploadedFile(Name_d_docx, << 80 >>, TRUE, << "Package not found" >>, << >>)
\* The upload widget is asked for five extensions; the handler does not rely on it.
File_unsupported == TextFile(Name_x_xyz, << 72 >>)

Uploadable ==
  { File_hello, File_same_name, File_pdf_broken, File_docx_broken, File_unsupported }

SecretStores == { {}, {"api_keys"}, {"api_keys", "claude"} }

\* The shapes the probes of lines 338-357 tell apart: the older package
\* (Client with completion, no Anthropic), the newer one (Client kept as a
\* name, completion gone, Anthropic), a package without Client or without the
\* prompt constants, a package with both entry points, and none installed.
Lib_legacy        == Library(TRUE, TRUE, TRUE, TRUE, FALSE)
Lib_modern        == Library(TRUE, TRUE, TRUE, FALSE, TRUE)
Lib_no_client     == Library(TRUE, FALSE, FALSE, FALSE, TRUE)
Lib_no_constants  == Library(TRUE, TRUE, FALSE, FALSE, TRUE)
Lib_both          == Library(TRUE, TRUE, TRUE, TRUE, TRUE)
Lib_not_installed == Library(FALSE, FALSE, FALSE, FALSE, FALSE)

Libraries ==
  { Lib_legacy, Lib_modern, Lib_no_client, Lib_no_constants, Lib_both, Lib_not_installed }

Rubric_text == << "{", "Spinelli heuristics model", "}" >>

RubricResources ==
  { RubricResource(TRUE, Rubric_text), RubricResource(FALSE, << >>) }

Texts == { "", "evaluation A", "evaluation B" }

OlderOutcomes ==
  { RaisesOutcome(e) : e \in {"AttributeError", "TypeError", "APIError"} }
  \cup { ResponseOutcome("completion", t) : t \in Texts }
  \cup { ResponseOutcome(sh, "") : sh \in {"no_field", "not_subscriptable"} }

NewerOutcomes ==
  { RaisesOutcome("APIError") }
  \cup { ResponseOutcome("message", t) : t \in Texts }
  \cup { ResponseOutcome(sh, "") : sh \in {"empty_content", "no_content"} }

\* ------------------------------------------------------------ the session

\* The outcome of the last request a run sent, as the service gave it: the
\* answer text when the response was well formed for the client that asked.
LastAnswer(requests, old, new) ==
  IF Len(requests) = 0 THEN [ok |-> FALSE, text |-> ""]
  ELSE LET o == IF requests[Len(requests)].api = "completion" THEN old ELSE new
           shape == IF requests[Len(requests)].api = "completion"
                    THEN "completion" ELSE "message"
       IN  IF o.kind = "response" /\ o.shape = shape
           THEN [ok |-> TRUE, text |-> o.text]
           ELSE [ok |-> FALSE, text |-> ""]

NoAnalysis == [ran |-> FALSE, ok |-> FALSE, text |-> ""]
NoAnswer   == [any |-> FALSE, text |-> ""]

IdleExtractor ==
  /\ xfile = File_hello
  /\ xout = [called |-> FALSE, raised |-> FALSE, content |-> << >>]

IdleAssembler ==
  /\ pargs = [files |-> << >>, override |-> NoOverride,
              resource |-> RubricResource(FALSE, << >>)]
  /\ pout = [called |-> FALSE, prompt |-> << >>]

\* The session after the first run of the script.
Init ==
  /\ secrets \in SecretStores
  /\ library \in Libraries
  /\ rubric \in RubricResources
  /\ uploaded_files = << >>
  /\ session_state = NoSession
  /\ LET first == main(secrets, library, rubric, << >>, NoSession, FALSE,
                       RaisesOutcome("APIError"), RaisesOutcome("APIError"))
     IN  run = first.run /\ results_tab = first.tab
  /\ served = << >>
  /\ latest = NoAnalysis
  /\ answered = NoAnswer
  /\ IdleExtractor
  /\ IdleAssembler

\* A run of the script: the widgets as they now are, the button pressed or not.
Rerun(files, pressed, old, new) ==
  \E r \in { main(secrets, library, rubric, files, session_state, pressed, old, new) } :
  LET analysed == pressed /\ r.run.called
      answer == LastAnswer(r.run.requests, old, new)
  IN  /\ uploaded_files' = files
      /\ run' = r.run
      /\ session_state' = r.session
      /\ results_tab' = r.tab
      /\ served' = [i \in 1..Len(r.run.requests) |->
                      IF r.run.requests[i].api = "completion" THEN old ELSE new]
      /\ latest' = IF analysed THEN [ran |-> TRUE, ok |-> answer.ok, text |-> answer.text]
                   ELSE latest
      /\ answered' = IF analysed /\ answer.ok THEN [any |-> TRUE, text |-> answer.text]
                     ELSE answered
      /\ UNCHANGED << secrets, library, rubric, extractor_vars, assembler_vars >>

\* The user adds a file to the upload widget; the script runs again.
UploadFile ==
  \E f \in Uploadable :
    /\ Len(uploaded_files) < MaxFiles
    /\ Rerun(Append(uploaded_files, f), FALSE,
             RaisesOutcome("APIError"), RaisesOutcome("APIError"))

\* The user takes a file out of the upload widget; the script runs again.
RemoveFile ==
  \E i \in 1..Len(uploaded_files) :
    Rerun(SubSeq(uploaded_files, 1, i - 1)
            \o SubSeq(uploaded_files, i + 1, Len(uploaded_files)),
          FALSE, RaisesOutcome("APIError"), RaisesOutcome("APIError"))

\* No request of that client is sent, so the service makes nothing of it.
Unasked == RaisesOutcome("unasked")

\* The outcomes the service can give the older client's request in a run that
\* sends one, and the newer client's after the older client ended with old.
AskedOlder ==
  IF rejects(api_key_of(secrets), uploaded_files) = "none" /\ sends_older(library)
  THEN OlderOutcomes ELSE { Unasked }

AskedNewer(old) ==
  IF rejects(api_key_of(secrets), uploaded_files) = "none" /\ sends_newer(library, old)
  THEN NewerOutcomes ELSE { Unasked }

\* The Analyze button reports a press; the script runs again.  What st.button
\* returns is the framework's: a press is taken here whether or not the button
\* was drawn disabled, the case lines 287-290 guard against.
PressAnalyze ==
  \E old \in AskedOlder :
    \E new \in AskedNewer(old) :
      Rerun(uploaded_files, TRUE, old, new)

Next == UploadFile \/ RemoveFile \/ PressAnalyze

Spec == Init /\ [][Next]_vars

\* ------------------------------------------------------ the extractor alone

ByteAlphabet == { 65, 169, 195, 226, 255 }

ByteStrings == UNION { [1..n -> ByteAlphabet] : n \in 0..MaxBytes }

ExtractorInputs ==
  { TextFile(n, d) : n \in {Name_a_md, Name_B_TXT, Name_n_Md}, d \in ByteStrings }
  \cup Uploadable \cup { File_markup, File_pdf_pages }

IdleSession ==
  /\ secrets = {}
  /\ library = Lib_not_installed
  /\ rubric = RubricResource(FALSE, << >>)
  /\ uploaded_files = << >>
  /\ session_state = NoSession
  /\ run = QuietRun(FALSE, TRUE, FALSE, << >>)
  /\ results_tab = NotRendered
  /\ served = << >>
  /\ latest = NoAnalysis
  /\ answered = NoAnswer

InitExtract ==
  /\ xfile \in ExtractorInputs
  /\ xout = [called |-> FALSE, raised |-> FALSE, content |-> << >>]
  /\ IdleSession
  /\ IdleAssembler

Extract ==
  /\ ~xout.called
  /\ LET got == extract_text_from_file(xfile)
     IN  xout' = [called |-> TRUE, raised |-> got.raised, content |-> got.content]
  /\ UNCHANGED << xfile, session_vars, assembler_vars >>

SpecExtract == InitExtract /\ [][Extract]_vars

\* ------------------------------------------------------ the assembler alone

\* The most entries of a document map the assembler is run on.
MaxDocs == 2

DocNames == { Name_a_md, Name_b_md, Name_p_pdf }

DocTexts == { << >>, << "H", "i" >>, << "<", "s", "o", "u", "r", "c", "e", ">", "a", ".", "m", "d", "<", "/", "s", "o", "u", "r", "c", "e", ">" >> }

\* The ordered dicts over DocNames: no name twice.
DocMaps ==
  UNION { { m \in [1..n -> [name : DocNames, content : DocTexts]] :
              \A i, j \in 1..n : m[i].name = m[j].name => i = j }
          : n \in 0..MaxDocs }

Overrides == { NoOverride, Override(<< >>), Override(<< "my rubric" >>) }

AssemblerResources == RubricResources \cup { RubricResource(TRUE, << >>) }

InitPrompt ==
  /\ pargs \in [files : DocMaps, override : Overrides, resource : AssemblerResources]
  /\ pout = [called |-> FALSE, prompt |-> << >>]
  /\ IdleSession
  /\ IdleExtractor

Assemble ==
  /\ ~pout.called
  /\ pout' = [called |-> TRUE,
              prompt |-> create_prompt(pargs.files, pargs.override, pargs.resource)]
  /\ UNCHANGED << pargs, session_vars, extractor_vars >>

SpecPrompt == InitPrompt /\ [][Assemble]_vars

\* ------------------------------------------------------------- the claims

\* How many times sub occurs in s.
Occurrences(sub, s) ==
  Cardinality({ i \in 1..(Len(s) - Len(sub) + 1) : SubSeq(s, i, i + Len(sub) - 1) = sub })

\* The credential is in the secret store.
CredentialPresent == {"api_keys", "claude"} \subseteq secrets

\* A run whose handler took the press and went on to process the files.
Analysed == run.pressed /\ ~run.rejected

\* C1: with the credential absent from the secret store, every run of main()
\* has the analyze button disabled and rejects a press that is reported all the
\* same: it extracts no file, assembles no prompt and sends no request.
C1_NoCredentialNoAnalysis ==
  ~CredentialPresent =>
    /\ run.button_disabled
    /\ (run.pressed => run.rejected)
    /\ run.extracted = << >>
    /\ run.prompt = << >>
    /\ ~run.called
    /\ run.requests = << >>
    /\ "raw_response" \notin DOMAIN session_state

\* A press reported with files uploaded and the credential absent: rejected.
C1_Witness ==
  /\ ~CredentialPresent
  /\ Len(uploaded_files) = MaxFiles
  /\ run.pressed
  /\ run.rejected
  /\ run.requests = << >>

\* C2: an analyze action sends at most one text-generation request, whatever
\* became of the first one and whichever client sent it.
C2_AtMostOneRequest == Len(run.requests) <= 1

\* The service did not answer the request with a response of the shape its
\* client reads.
Failed(request, outcome) ==
  \/ outcome.kind = "raise"
  \/ outcome.shape # (IF request.api = "completion" THEN "completion" ELSE "message")

CallErrorShown(r) ==
  \E i \in 1..Len(r.shown) :
    r.shown[i] \in { "error: Error calling Claude API: " \o e :
                     e \in { "AttributeError", "TypeError", "APIError", "KeyError",
                             "IndexError", "ImportError", "Exception" } }

\* C3: a run whose outbound call fails (a request raises or is answered in an
\* unexpected shape, or the library cannot make the request) shows the error,
\* ends without an uncaught exception and leaves st.session_state as it was.
C3_FailedCallStoresNothing ==
  [][ ( /\ run'.pressed
        /\ run'.called
        /\ \/ run'.requests = << >>
           \/ \E i \in 1..Len(served') : Failed(run'.requests[i], served'[i]) )
      => ( /\ CallErrorShown(run')
           /\ ~run'.uncaught
           /\ session_state' = session_state ) ]_vars

\* The files of the inputs whose extraction fails, and the marker each gets.
FailingFiles == { File_pdf_broken, File_docx_broken, File_unsupported }

MarkerOf(f) ==
  IF f = File_pdf_broken
    THEN << "[Error extracting text from PDF: ", "EOF marker not found", "]" >>
  ELSE IF f = File_docx_broken
    THEN << "[Error extracting text from DOCX: ", "Package not found", "]" >>
  ELSE << "[Unsupported file type: ", "x", "y", "z", "]" >>

\* The text of the files of the inputs whose extraction succeeds.
TextOf(f) ==
  IF f = File_hello THEN << "H", "i" >>
  ELSE IF f = File_same_name THEN << "O" >>
  ELSE IF f = File_pdf_pages THEN << "P", "1", "\n", "\n", "P", "2" >>
  ELSE << "<", "s", "o", "u", "r", "c", "e", ">", "a", ".", "m", "d", "<", "/", "s", "o", "u", "r", "c", "e", ">" >>

\* C4: a file whose extraction fails does not abort the batch: the extractor
\* returns the marker for it, every file of the batch is extracted, in order,
\* and the run goes on to assemble the prompt and make the call.
C4_BatchSurvivesFailedFile ==
  Analysed =>
    /\ ~run.uncaught
    /\ Len(run.extracted) = Len(uploaded_files)
    /\ \A i \in 1..Len(uploaded_files) :
         /\ i <= Len(run.extracted)
         /\ run.extracted[i].name = uploaded_files[i].name
         /\ run.extracted[i].content =
              IF uploaded_files[i] \in FailingFiles
              THEN MarkerOf(uploaded_files[i]) ELSE TextOf(uploaded_files[i])
    /\ run.called
    /\ Occurrences(<< "Here is a heuristics model:" >>, run.prompt) = 1

\* A broken PDF first, a good file after it, and the request went out.
C4_Witness ==
  /\ Analysed
  /\ uploaded_files = << File_pdf_broken, File_hello >>
  /\ run.extracted[2].content = << "H", "i" >>
  /\ Len(run.requests) = 1

DocumentTag == << "<", "d", "o", "c", "u", "m", "e", "n", "t", ">" >>

\* C5: the dict given to create_prompt has one entry per uploaded file, the
\* i-th with the name and the extracted text of the i-th file, and the prompt
\* has one <document> block per uploaded file.
C5_OneEntryPerUpload ==
  (Analysed /\ run.called) =>
    /\ Len(run.franchise_files) = Len(uploaded_files)
    /\ \A i \in 1..Len(uploaded_files) :
         /\ i <= Len(run.franchise_files)
         /\ run.franchise_files[i].name = uploaded_files[i].name
         /\ run.franchise_files[i].content = run.extracted[i].content
    /\ Occurrences(DocumentTag, run.prompt) = Len(uploaded_files)

\* A name inside a <source> tag.
SourceTag(name) == << "<", "s", "o", "u", "r", "c", "e", ">" >> \o name \o << "<", "/", "s", "o", "u", "r", "c", "e", ">" >>

\* Where sub first occurs in s; 0 when it does not.
FirstAt(sub, s) ==
  LET at == { i \in 1..(Len(s) - Len(sub) + 1) : SubSeq(s, i, i + Len(sub) - 1) = sub }
  IN  IF at = {} THEN 0 ELSE CHOOSE i \in at : \A j \in at : i <= j

\* C6: every name of the document map given to create_prompt occurs exactly
\* once in the prompt inside a <source> tag, and the tags come in the order of
\* the names.
C6_EachNameOnceInOrder ==
  pout.called =>
    /\ \A i \in 1..Len(pargs.files) :
         Occurrences(SourceTag(pargs.files[i].name), pout.prompt) = 1
    /\ \A i, j \in 1..Len(pargs.files) :
         i < j => FirstAt(SourceTag(pargs.files[i].name), pout.prompt)
                    < FirstAt(SourceTag(pargs.files[j].name), pout.prompt)

\* The names of the extractor's inputs that end in txt or md, in any case.
TextNames == { Name_a_md, Name_B_TXT, Name_n_Md, Name_i_txt }

\* C7 as stated: for a txt or md file the extractor returns the UTF-8 decoding
\* of the bytes with U+FFFD in place of each ill-formed sequence.
C7_IllFormedBytesReplaced ==
  (xout.called /\ xfile.name \in TextNames) =>
    /\ ~xout.raised
    /\ xout.content = DecodeFrom(xfile.data, 1, << ReplacementChar >>)

\* A mark no decoded character is equal to.
IllFormedMark == "<ill-formed>"

NotIllFormedMark(c) == c # IllFormedMark

\* C7, amended: for a txt or md file (the extension in any case) the extractor
\* does not raise and returns the characters of the well-formed sequences of
\* the bytes, in order, with every ill-formed sequence dropped: nothing stands
\* where the ill-formed bytes were.
C7_IllFormedBytesDropped ==
  (xout.called /\ xfile.name \in TextNames) =>
    /\ ~xout.raised
    /\ xout.content =
         SelectSeq(DecodeFrom(xfile.data, 1, << IllFormedMark >>), NotIllFormedMark)
    /\ \A i \in 1..Len(xout.content) : xout.content[i] # ReplacementChar

\* B.TXT holding "A", a byte that starts no sequence, "A": the text is "AA".
C7_Witness ==
  /\ xout.called
  /\ xfile.name = Name_B_TXT
  /\ xfile.data = << 65, 255, 65 >>
  /\ xout.content = << "A", "A" >>

\* C8: a call the service answers with the text t, in the older format (the
\* field 'completion') or in the newer one (the text of the first content
\* block), ends with st.session_state.raw_response equal to t.
C8_BothShapesStoreTheText ==
  ( /\ Analysed
    /\ Len(served) > 0
    /\ ~Failed(run.requests[Len(served)], served[Len(served)]) )
  => /\ "raw_response" \in DOMAIN session_state
     /\ session_state["raw_response"] = served[Len(served)].text

\* The newer client's request answered with a structured message.
C8_Witness ==
  /\ Analysed
  /\ Len(run.requests) = 1
  /\ run.requests[1].api = "messages.create"
  /\ served[1] = ResponseOutcome("message", "evaluation A")
  /\ session_state["raw_response"] = "evaluation A"

\* The part of a prompt between the rubric heading and the instructions.
RubricPart(prompt) ==
  LET from == FirstAt(<< "Here is a heuristics model:", "\n" >>, prompt) + 2
      to   == FirstAt(<< "\n", "\n",
                "I want you to create a comprehensive franchise proposal evaluation [...] 5. [Recommendation 5]" >>,
                prompt) - 1
  IN  SubSeq(prompt, from, to)

SixDimensions ==
  { "Market Opportunity Assessment", "Value Creation & Brand Positioning",
    "Operational Excellence & Knowledge Transfer", "Financial Structure & Alignment",
    "Leadership & Support Systems", "Adaptability & Growth Potential" }

\* C9: called without a rubric override, create_prompt puts the default rubric
\* in the prompt; with the rubric resource unreadable the loader does not raise
\* and the rubric in the prompt is the fallback: not empty, naming the six
\* dimensions.
C9_DefaultRubricOrFallback ==
  (pout.called /\ ~pargs.override.given) =>
    /\ ~load_default_heuristics(pargs.resource).raised
    /\ Occurrences(<< "Here is a heuristics model:" >>, pout.prompt) = 1
    /\ IF pargs.resource.readable
       THEN RubricPart(pout.prompt) = pargs.resource.text
       ELSE /\ Len(RubricPart(pout.prompt)) > 0
            /\ \A d \in SixDimensions :
                 \E i \in 1..Len(RubricPart(pout.prompt)) : RubricPart(pout.prompt)[i] = d

\* No override, no readable resource, two documents.
C9_Witness ==
  /\ pout.called
  /\ ~pargs.override.given
  /\ ~pargs.resource.readable
  /\ Len(pargs.files) = MaxDocs
  /\ Len(RubricPart(pout.prompt)) > 0

\* C10 as stated: after any analyze runs, what the Results tab displays is the
\* result of the most recent run, never what an earlier run left behind.
C10_DisplaysMostRecentRun ==
  (latest.ran /\ results_tab.displayed) =>
    /\ latest.ok
    /\ results_tab.text = latest.text

\* C10, amended: the stored evaluation is overwritten by each run the service
\* answers: the Results tab reads the answer of the most recent such run, and
\* displays it unless it is empty; a run whose call fails or whose press is
\* rejected leaves the evaluation of the earlier run in place, still displayed.
C10_DisplaysMostRecentAnswer ==
  /\ ("raw_response" \in DOMAIN session_state) = answered.any
  /\ answered.any => session_state["raw_response"] = answered.text
  /\ results_tab.rendered
  /\ results_tab.displayed = (answered.any /\ answered.text # "")
  /\ results_tab.displayed => results_tab.text = answered.text

\* The latest analysis failed and the evaluation of an earlier one is displayed.
C10_Witness ==
  /\ latest.ran
  /\ ~latest.ok
  /\ run.pressed
  /\ run.called
  /\ answered.any
  /\ results_tab.displayed
  /\ results_tab.text = "evaluation B"

=============================================================================
